---- MODULE Spec2Model ----
(***************************************************************************)
(* Model of mirgo-utils (src/utilities): the command-line entry point, the *)
(* script scaffolder and the GLTF normal flipper.  The flipper is modelled *)
(* down to the bytes of the binary buffer: a float32 is decoded from its   *)
(* four little-endian bytes into sign, exponent and fraction, negated and  *)
(* encoded again.                                                          *)
(***************************************************************************)
EXTENDS Integers, Sequences, FiniteSets, TLC

(***************************************************************************)
(* Bounds of the model.                                                    *)
(***************************************************************************)
\* largest `count` of an accessor
MaxCount == 2
\* largest number of primitives in a scene (over all meshes)
MaxPrims == 2
\* largest binary buffer, in bytes
MaxBufLen == 28
\* largest number of entries of the input directory
MaxEntries == 2
\* largest number of meshes in a scene
MaxMeshes == 2
\* number of times the command is run on the same files
MaxRuns == 2
\* width of usize in bits, scaled down from 64
WordBits == 8
\* the number of usize values
Word == 2 ^ WordBits

(***************************************************************************)
(* JSON values.  A numeric field that is absent, or is not an unsigned     *)
(* integer, makes as_u64() return None: it is modelled as NoU64.  A string *)
(* field for which as_str() returns None is NoStr.  An array field for     *)
(* which as_array() returns None is Absent.                                *)
(***************************************************************************)
NoU64 == -1
NoStr == "<absent>"
Absent == [present |-> FALSE, items |-> <<>>]
Arr(s) == [present |-> TRUE, items |-> s]

\* Option<u64>::unwrap_or
UnwrapOr(v, d) == IF v = NoU64 THEN d ELSE v
\* Option<&str>::unwrap_or
UnwrapOrStr(v, d) == IF v = NoStr THEN d ELSE v

FLOAT == 5126
DefaultStride == 12

(***************************************************************************)
(* f32::from_le_bytes, unary minus on f32, f32::to_le_bytes.               *)
(***************************************************************************)
F32FromLeBytes(b) ==
    [sign |-> b[4] \div 128,
     exp  |-> (b[4] % 128) * 2 + (b[3] \div 128),
     frac |-> (b[3] % 128) * 65536 + b[2] * 256 + b[1]]

\* the sign set instead of flipped
F32NegAlwaysNegative(f) == [f EXCEPT !.sign = 1]

F32Neg(f) == [f EXCEPT !.sign = 1 - f.sign]

F32ToLeBytes(f) ==
    << f.frac % 256,
       (f.frac \div 256) % 256,
       (f.exp % 2) * 128 + (f.frac \div 65536),
       f.sign * 128 + (f.exp \div 2) >>

(***************************************************************************)
(* flip_accessor_normals, lines 191-205: one float read, negated and       *)
(* written back.  Offsets are 0-based as in the source; sequences are      *)
(* 1-based.                                                                *)
(***************************************************************************)
NegateAt(data, float_offset) ==
    LET bytes == << data[float_offset + 1], data[float_offset + 2],
                    data[float_offset + 3], data[float_offset + 4] >>
        new_bytes == F32ToLeBytes(F32Neg(F32FromLeBytes(bytes)))
    IN  [k \in 1..Len(data) |->
            IF k > float_offset /\ k <= float_offset + 4
            THEN new_bytes[k - float_offset]
            ELSE data[k]]

(***************************************************************************)
(* usize arithmetic.  The offsets are usize values, Word of them.  A sum   *)
(* or product that does not fit wraps around modulo Word when the build    *)
(* has overflow checks off (the release profile) and panics when it has    *)
(* them on (the dev profile): `checks` is that setting of the build.  x is *)
(* the exact result of one operation on two usize values.                  *)
(***************************************************************************)
Usize(x, checks) == [val |-> x % Word, panic |-> checks /\ x >= Word]

\* the state of one call of flip_accessor_normals: the buffer, and whether the
\* thread has panicked
Running(data) == [data |-> data, panic |-> FALSE]
Panicked(s) == [s EXCEPT !.panic = TRUE]

\* lines 191-196: bin_data[float_offset] .. bin_data[float_offset + 3] are all
\* inside the buffer (an index past the end panics in every build)
IndexOk(data, float_offset) ==
    \A k \in 0..3 : (float_offset + k) % Word < Len(data)

\* the component index taken as a byte offset
FlipComponentUnscaled(s, offset, j, checks) ==
    LET float_offset == Usize(offset + j, checks)
        end == Usize(float_offset.val + 4, checks)
    IN  IF s.panic THEN s
        ELSE IF float_offset.panic \/ end.panic THEN Panicked(s)
        ELSE IF end.val > Len(s.data) THEN s
        ELSE IF ~IndexOk(s.data, float_offset.val) THEN Panicked(s)
        ELSE [s EXCEPT !.data = NegateAt(s.data, float_offset.val)]

\* lines 185-206: the body of the `for j in 0..3` loop for one j
FlipComponent(s, offset, j, checks) ==
    LET float_offset == Usize(offset + j * 4, checks)
        end == Usize(float_offset.val + 4, checks)
    IN  IF s.panic THEN s
        ELSE IF float_offset.panic \/ end.panic THEN Panicked(s)
        ELSE IF end.val > Len(s.data) THEN s
        ELSE IF ~IndexOk(s.data, float_offset.val) THEN Panicked(s)
        ELSE [s EXCEPT !.data = NegateAt(s.data, float_offset.val)]

\* the `for j in 0..3` loop
FlipElement(s, offset, checks) ==
    FlipComponent(FlipComponent(FlipComponent(s, offset, 0, checks),
                                offset, 1, checks),
                  offset, 2, checks)

\* the `for i in 0..count` loop, from element i on
RECURSIVE FlipLoop(_, _, _, _, _, _)
FlipLoop(s, start, byte_stride, i, count, checks) ==
    IF i >= count \/ s.panic
    THEN s
    ELSE LET product == Usize(i * byte_stride, checks)
             offset == Usize(start + product.val, checks)
         IN  IF product.panic \/ offset.panic
             THEN Panicked(s)
             ELSE FlipLoop(FlipElement(s, offset.val, checks),
                           start, byte_stride, i + 1, count, checks)

\* Vec::get / slice::get on a JSON array
InRange(arr, idx) == idx >= 0 /\ idx < Len(arr.items)

Skipped(data) == [data |-> data, ret |-> 0, panic |-> FALSE]

\* the two tests joined by && instead of ||
NotVec3AndNotFloat(accessor) ==
    /\ UnwrapOrStr(accessor.type, "") # "VEC3"
    /\ UnwrapOr(accessor.componentType, 0) # FLOAT

\* line 151: the accessor is not a VEC3 of floats
NotVec3Float(accessor) ==
    \/ UnwrapOrStr(accessor.type, "") # "VEC3"
    \/ UnwrapOr(accessor.componentType, 0) # FLOAT

\* flip_accessor_normals from line 131 on, for the accessor found at accessor_idx;
\* a call that panics returns nothing
FlipResolved(g, accessor, data, checks) ==
    IF accessor.bufferView = NoU64 THEN Skipped(data)
    ELSE IF accessor.count = NoU64 THEN Skipped(data)
    ELSE IF NotVec3Float(accessor) THEN Skipped(data)
    ELSE IF ~g.bufferViews.present THEN Skipped(data)
    ELSE IF ~InRange(g.bufferViews, accessor.bufferView) THEN Skipped(data)
    ELSE LET buffer_view == g.bufferViews.items[accessor.bufferView + 1]
             byte_offset == UnwrapOr(buffer_view.byteOffset, 0)
             accessor_offset == UnwrapOr(accessor.byteOffset, 0)
             byte_stride == UnwrapOr(buffer_view.byteStride, DefaultStride)
             start == Usize(byte_offset + accessor_offset, checks)
             s == IF start.panic
                  THEN Panicked(Running(data))
                  ELSE FlipLoop(Running(data), start.val, byte_stride, 0,
                                accessor.count, checks)
         IN  [data  |-> s.data,
              ret   |-> IF s.panic THEN 0 ELSE accessor.count,
              panic |-> s.panic]

\* a reference past the end of `accessors` handled as a reference to the last one
FlipAccessorNormalsClamped(g, accessor_idx, data, checks) ==
    IF ~g.accessors.present \/ g.accessors.items = <<>> \/ accessor_idx < 0
    THEN Skipped(data)
    ELSE FlipResolved(g, g.accessors.items[IF accessor_idx < Len(g.accessors.items)
                                           THEN accessor_idx + 1
                                           ELSE Len(g.accessors.items)], data, checks)

\* fn flip_accessor_normals(gltf, accessor_idx, bin_data) -> usize
FlipAccessorNormals(g, accessor_idx, data, checks) ==
    IF ~g.accessors.present THEN Skipped(data)
    ELSE IF ~InRange(g.accessors, accessor_idx) THEN Skipped(data)
    ELSE FlipResolved(g, g.accessors.items[accessor_idx + 1], data, checks)

(***************************************************************************)
(* run: the traversal of meshes[*].primitives[*].attributes.NORMAL.  A     *)
(* primitive is [attributes |-> BOOLEAN, NORMAL |-> index or NoU64]; a     *)
(* mesh is [primitives |-> array or Absent].  NormalRefs is the sequence   *)
(* of accessor indices handed to flip_accessor_normals, in call order.     *)
(***************************************************************************)
RECURSIVE PrimitiveRefs(_)
PrimitiveRefs(prims) ==
    IF prims = <<>> THEN <<>>
    ELSE LET primitive == Head(prims)
             here == IF primitive.attributes /\ primitive.NORMAL # NoU64
                     THEN <<primitive.NORMAL>> ELSE <<>>
         IN  here \o PrimitiveRefs(Tail(prims))

RECURSIVE MeshRefs(_)
MeshRefs(meshes) ==
    IF meshes = <<>> THEN <<>>
    ELSE LET mesh == Head(meshes)
             here == IF mesh.primitives.present
                     THEN PrimitiveRefs(mesh.primitives.items) ELSE <<>>
         IN  here \o MeshRefs(Tail(meshes))

NormalRefs(g) == IF g.meshes.present THEN MeshRefs(g.meshes.items) ELSE <<>>

(***************************************************************************)
(* main.rs: to_snake_case and the file name new_script writes.  A string   *)
(* is a sequence of one-character strings.                                 *)
(***************************************************************************)
UpperChars == {"E", "C"}
ToLower(c) == IF c = "E" THEN "e" ELSE IF c = "C" THEN "c" ELSE c

RECURSIVE SnakeFrom(_, _)
SnakeFrom(s, i) ==
    IF i > Len(s) THEN <<>>
    ELSE (IF s[i] \in UpperChars /\ i > 1 THEN <<"_">> ELSE <<>>)
         \o <<ToLower(s[i])>> \o SnakeFrom(s, i + 1)

ToSnakeCase(s) == SnakeFrom(s, 1)

ScriptFile(name) == ToSnakeCase(name) \o <<".go">>

ValidScriptName(name) == name # <<>> /\ name[1] \in UpperChars

(***************************************************************************)
(* Inputs: binary buffers.                                                 *)
(***************************************************************************)
\* the little-endian bytes of the floats 1.0, -2.0, 3.0
ExampleBytes == << 0, 0, 128, 63,   0, 0, 0, 192,   0, 0, 64, 64 >>

\* pattern 1 repeats the example floats, pattern 2 has pairwise distinct bytes
PatternByte(pat, k) ==
    IF pat = 1 THEN ExampleBytes[((k - 1) % 12) + 1] ELSE (k * 37 + 11) % 256

Buffer(len, pat) == [k \in 1..len |-> PatternByte(pat, k)]

BufLens == {0, 3, 8, 12, 16, 24, MaxBufLen}

WideBuffers == {Buffer(len, pat) : len \in BufLens, pat \in {1, 2}}

NarrowBuffers == {Buffer(len, 2) : len \in {20, MaxBufLen}}

(***************************************************************************)
(* Inputs: scene descriptions.                                             *)
(***************************************************************************)
Accessor(bv, cnt, ty, ct, off) ==
    [bufferView |-> bv, count |-> cnt, type |-> ty, componentType |-> ct,
     byteOffset |-> off]

View(off, stride) == [byteOffset |-> off, byteStride |-> stride]

Prim(n) == [attributes |-> TRUE, NORMAL |-> n]

NoAttributes == [attributes |-> FALSE, NORMAL |-> NoU64]

Mesh(prims) == [primitives |-> Arr(prims)]

Doc(bufs, accs, views, meshes) ==
    [buffers |-> bufs, accessors |-> accs, bufferViews |-> views, meshes |-> meshes]

\* buffers[0] with and without a uri
WithUri == Arr(<< [uri |-> "scene.bin"] >>)
BuffersSet == {Absent, Arr(<<>>), Arr(<< [uri |-> NoStr] >>), WithUri}

EligibleAccessors(bvs, counts, offs) ==
    {Accessor(bv, c, "VEC3", FLOAT, off) : bv \in bvs, c \in counts, off \in offs}

\* one field of an eligible accessor absent or of another value
MalformedAccessors ==
    { Accessor(NoU64, 1, "VEC3", FLOAT, NoU64),
      Accessor(0, NoU64, "VEC3", FLOAT, NoU64),
      Accessor(0, 1, "VEC2", FLOAT, NoU64),
      Accessor(0, 1, NoStr, FLOAT, NoU64),
      Accessor(0, 1, "VEC3", 5123, NoU64),
      Accessor(0, 1, "VEC3", NoU64, NoU64) }

WideAccessors == EligibleAccessors({0, 1}, 0..MaxCount, {NoU64, 4}) \cup MalformedAccessors

WideViews == {View(off, st) : off \in {NoU64, 8}, st \in {NoU64, 0, 4, 5, 16}}

NarrowAccessors ==
    { Accessor(0, 1, "VEC3", FLOAT, NoU64), Accessor(0, MaxCount, "VEC3", FLOAT, 4),
      Accessor(0, 1, "VEC2", FLOAT, NoU64), Accessor(1, 1, "VEC3", FLOAT, NoU64) }

NarrowViews == {View(NoU64, NoU64), View(NoU64, 4)}

SeqsUpTo(S, n) == UNION {[1..k -> S] : k \in 0..n}

RECURSIVE TotalPrims(_)
TotalPrims(meshes) ==
    IF meshes = <<>> THEN 0
    ELSE Len(Head(meshes).primitives.items) + TotalPrims(Tail(meshes))

MeshSet(P) == {[primitives |-> Absent]} \cup {Mesh(ps) : ps \in SeqsUpTo(P, MaxPrims)}

MeshesSet(P) ==
    {Absent} \cup {Arr(ms) : ms \in {m \in SeqsUpTo(MeshSet(P), MaxMeshes) :
                                        TotalPrims(m) <= MaxPrims}}

\* one accessor and one buffer view of any shape, referenced once
SingleAccessorDocs ==
    {Doc(WithUri, Arr(<<a>>), Arr(<<v>>), Arr(<<Mesh(<<Prim(n)>>)>>)) :
        a \in WideAccessors, v \in WideViews, n \in {0, 1}}

\* up to two accessors, any arrangement of meshes and primitives
ManyAccessorDocs ==
    {Doc(WithUri, accs, views, meshes) :
        accs \in {Absent} \cup {Arr(s) : s \in SeqsUpTo(NarrowAccessors, 2)},
        views \in {Absent} \cup {Arr(<<v>>) : v \in NarrowViews},
        meshes \in MeshesSet({Prim(NoU64), Prim(0), Prim(1)})}

\* the example of the specification: one mesh, one primitive, count 1
ExampleDoc ==
    Doc(WithUri, Arr(<<Accessor(0, 1, "VEC3", FLOAT, 0)>>), Arr(<<View(0, 12)>>),
        Arr(<<Mesh(<<Prim(0)>>)>>))

\* scenes for the runs that vary the files and the command line
FewDocs ==
    {Doc(b, ExampleDoc.accessors, ExampleDoc.bufferViews, m) :
        b \in BuffersSet,
        m \in {ExampleDoc.meshes, Arr(<<Mesh(<<NoAttributes>>)>>)}}

\* offsets and strides near the top of the usize range, one accessor
WrapAccessors == EligibleAccessors({0}, 1..MaxCount, {NoU64, 8, Word - 4})

WrapViews ==
    {View(off, st) : off \in {NoU64, 4, Word - 8, Word - 4},
                     st \in {NoU64, Word \div 2, Word - 4}}

WrapDocs ==
    {Doc(WithUri, Arr(<<a>>), Arr(<<v>>), Arr(<<Mesh(<<Prim(0)>>)>>)) :
        a \in WrapAccessors, v \in WrapViews}

WrapBuffers == {Buffer(len, 1) : len \in {12, 24}}

(***************************************************************************)
(* Inputs: the command line and the files.                                 *)
(*   argv.len is args.len(); argv.cmd is args[1]; argv.arg is args[2], a   *)
(*   sequence of characters (the script name, or the path whose kind on    *)
(*   disk is env.inputKind).                                               *)
(***************************************************************************)
Commands == {"newscript", "flipnormals", "build", "help", "bogus"}

Words == { <<>>, <<"E", "c">>, <<"e", "C">>, <<"E", "C">> }

ArgvSet ==
    {[len |-> 1, cmd |-> "", arg |-> <<>>]}
        \cup {[len |-> 2, cmd |-> c, arg |-> <<>>] : c \in Commands}
        \cup {[len |-> 3, cmd |-> c, arg |-> w] : c \in Commands, w \in Words}

FlipArgv == [len |-> 3, cmd |-> "flipnormals", arg |-> <<"E", "c">>]

\* a directory entry: the extension of its name, and whether it is a directory
Entries == {[ext |-> e, isDir |-> d] : e \in {"gltf", "txt"}, d \in BOOLEAN}
              \ {[ext |-> "txt", isDir |-> TRUE]}

\* overflowChecks is the overflow-checks setting the binary was built with
Env(kind, ents, text, doc, binExists, writable, checks) ==
    [inputKind |-> kind, entries |-> ents, gltfText |-> text, doc |-> doc,
     binExists |-> binExists, scriptsWritable |-> writable,
     overflowChecks |-> checks]

CliEnvs ==
    {Env("file", <<>>, "ok", ExampleDoc, TRUE, w, FALSE) : w \in BOOLEAN}

FileEnvs ==
    {Env(kind, ents, text, doc, binExists, TRUE, FALSE) :
        kind \in {"missing", "file", "dir"},
        ents \in SeqsUpTo(Entries, MaxEntries),
        text \in {"unreadable", "malformed", "ok"},
        doc \in FewDocs,
        binExists \in BOOLEAN}

VARIABLES
    argv,             \* the command line
    env,              \* the files the run reads and never writes
    binFile,          \* the bytes of the binary buffer file on disk
    scripts,          \* the files of SCRIPTS_DIR
    pc,               \* the position of the process
    path,             \* run: `path`; 0 is the argument, k > 0 the k-th directory entry
    gltf,             \* run: `gltf`, the parsed scene description
    bin_data,         \* run: `bin_data`
    normals_flipped,  \* run: `normals_flipped`
    next_ref,         \* run: NORMAL references already handed to flip_accessor_normals
    exit_code,        \* the exit status of the process, -1 while it runs
    op,               \* the operation main dispatched to
    reads,            \* history: reads of the binary file in this run
    writes,           \* history: calls of fs::write on the binary file in this run
    writeFailed,      \* history: the run's fs::write returned an error
    run,              \* history: the number of this run
    completed,        \* history: runs that went through to the end of `run`
    bin0,             \* history: the binary file before the first run
    binAtStart        \* history: the binary file when this run started

vars == << argv, env, binFile, scripts, pc, path, gltf, bin_data, normals_flipped,
           next_ref, exit_code, op, reads, writes, writeFailed, run, completed,
           bin0, binAtStart >>

EmptyDoc == Doc(Absent, Absent, Absent, Absent)

Fresh ==
    /\ pc = "main"
    /\ path = 0
    /\ gltf = EmptyDoc
    /\ bin_data = <<>>
    /\ normals_flipped = 0
    /\ next_ref = 0
    /\ exit_code = -1
    /\ op = "none"
    /\ reads = 0
    /\ writes = 0
    /\ writeFailed = FALSE
    /\ run = 1
    /\ completed = 0
    /\ bin0 = binFile
    /\ binAtStart = binFile

InitCli ==
    /\ argv \in ArgvSet
    /\ env \in CliEnvs
    /\ binFile = Buffer(12, 1)
    /\ scripts \in {{}, {ScriptFile(<<"E", "c">>)}}

InitFiles ==
    /\ argv = FlipArgv
    /\ env \in {e \in FileEnvs : e.inputKind # "dir" => e.entries = <<>>}
    /\ binFile = Buffer(12, 1)
    /\ scripts = {}

InitScenes ==
    /\ argv = FlipArgv
    /\ \/ /\ env \in {Env("file", <<>>, "ok", d, TRUE, TRUE, FALSE) : d \in SingleAccessorDocs}
          /\ binFile \in WideBuffers
       \/ /\ env \in {Env("file", <<>>, "ok", d, TRUE, TRUE, FALSE) : d \in ManyAccessorDocs}
          /\ binFile \in NarrowBuffers
    /\ scripts = {}

Init == (InitCli \/ InitFiles \/ InitScenes) /\ Fresh

\* scenes whose offsets reach the end of the usize range, under either build
InitWrapScenes ==
    /\ argv = FlipArgv
    /\ env \in {Env("file", <<>>, "ok", d, TRUE, TRUE, c) : d \in WrapDocs, c \in BOOLEAN}
    /\ binFile \in WrapBuffers
    /\ scripts = {}

InitWrap == (InitCli \/ InitFiles \/ InitWrapScenes) /\ Fresh

(***************************************************************************)
(* The process ends: process::exit(code), or the return from main.         *)
(***************************************************************************)
Exit(code) ==
    /\ pc' = "done"
    /\ exit_code' = code

\* main: the operation the command line selects, "exit" for process::exit(1)
Dispatch(a) ==
    IF a.len < 2 THEN "exit"
    ELSE IF a.cmd = "newscript" THEN (IF a.len < 3 THEN "exit" ELSE "newscript")
    ELSE IF a.cmd = "flipnormals" THEN (IF a.len < 3 THEN "exit" ELSE "flipnormals")
    ELSE "exit"

Main ==
    /\ pc = "main"
    /\ LET to == Dispatch(argv)
       IN  IF to = "exit"
           THEN Exit(1) /\ op' = op
           ELSE /\ op' = to
                /\ pc' = IF to = "newscript" THEN "new_script" ELSE "resolve"
                /\ exit_code' = exit_code
    /\ UNCHANGED << argv, env, binFile, scripts, path, gltf, bin_data, normals_flipped,
                    next_ref, reads, writes, writeFailed, run, completed, bin0,
                    binAtStart >>

\* fn new_script(name)
NewScript ==
    /\ pc = "new_script"
    /\ LET name == argv.arg
       IN  IF ~ValidScriptName(name) THEN Exit(1) /\ scripts' = scripts
           ELSE IF ScriptFile(name) \in scripts THEN Exit(1) /\ scripts' = scripts
           ELSE IF ~env.scriptsWritable THEN Exit(1) /\ scripts' = scripts
           ELSE Exit(0) /\ scripts' = scripts \cup {ScriptFile(name)}
    /\ UNCHANGED << argv, env, binFile, path, gltf, bin_data, normals_flipped,
                    next_ref, op, reads, writes, writeFailed, run, completed, bin0,
                    binAtStart >>

(***************************************************************************)
(* run (flip_normals), lines 8-40: the path the scene is read from.        *)
(* 0 is the argument itself, k > 0 the k-th entry of the directory in      *)
(* listing order, NoPath the two process::exit(1).                         *)
(***************************************************************************)
NoPath == -1

\* the loop over read_dir: the first entry whose path has extension "gltf"
RECURSIVE FirstGltf(_, _)
FirstGltf(entries, i) ==
    IF i > Len(entries) THEN NoPath
    ELSE IF entries[i].ext = "gltf" THEN i
    ELSE FirstGltf(entries, i + 1)

ResolvePath(e) ==
    IF e.inputKind = "missing" THEN NoPath
    ELSE IF e.inputKind = "dir" THEN FirstGltf(e.entries, 1)
    ELSE 0

Resolve ==
    /\ pc = "resolve"
    /\ LET p == ResolvePath(env)
       IN  IF p = NoPath
           THEN Exit(1) /\ path' = path
           ELSE pc' = "read_gltf" /\ path' = p /\ exit_code' = exit_code
    /\ UNCHANGED << argv, env, binFile, scripts, gltf, bin_data, normals_flipped,
                    next_ref, op, reads, writes, writeFailed, run, completed, bin0,
                    binAtStart >>

\* fs::read_to_string(&path) and serde_json::from_str
ReadOutcome(e, p) ==
    IF p > 0 /\ e.entries[p].isDir THEN "io_error"
    ELSE IF e.gltfText = "unreadable" THEN "io_error"
    ELSE IF e.gltfText = "malformed" THEN "parse_error"
    ELSE "ok"

\* the uri of buffers[0] not looked at
HasBuffersOnly(g) == g.buffers.present

\* lines 59-73: whether buffers[0].uri names the binary file
HasBinPath(g) ==
    /\ g.buffers.present
    /\ g.buffers.items # <<>>
    /\ g.buffers.items[1].uri # NoStr

\* lines 42-73: read and parse the scene, find the binary file's path
ReadGltf ==
    /\ pc = "read_gltf"
    /\ IF ReadOutcome(env, path) # "ok"
       THEN Exit(1) /\ gltf' = gltf
       ELSE /\ gltf' = env.doc
            /\ IF HasBinPath(env.doc)
               THEN pc' = "read_bin" /\ exit_code' = exit_code
               ELSE Exit(1)
    /\ UNCHANGED << argv, env, binFile, scripts, path, bin_data, normals_flipped,
                    next_ref, op, reads, writes, writeFailed, run, completed, bin0,
                    binAtStart >>

\* lines 75-84: fs::read(&bin_path)
ReadBin ==
    /\ pc = "read_bin"
    /\ IF env.binExists
       THEN /\ bin_data' = binFile
            /\ reads' = reads + 1
            /\ normals_flipped' = 0
            /\ pc' = "scan"
            /\ exit_code' = exit_code
       ELSE Exit(1) /\ UNCHANGED << bin_data, reads, normals_flipped >>
    /\ UNCHANGED << argv, env, binFile, scripts, path, gltf, next_ref, op, writes,
                    writeFailed, run, completed, bin0, binAtStart >>

\* lines 86-101: one NORMAL reference, normals_flipped += flip_accessor_normals(..);
\* a panic in the call unwinds main and the process exits with status 101
FlipNext ==
    /\ pc = "scan"
    /\ next_ref < Len(NormalRefs(gltf))
    /\ LET r == FlipAccessorNormals(gltf, NormalRefs(gltf)[next_ref + 1], bin_data,
                                    env.overflowChecks)
       IN  /\ bin_data' = r.data
           /\ normals_flipped' = normals_flipped + r.ret
           /\ IF r.panic
              THEN Exit(101)
              ELSE UNCHANGED << pc, exit_code >>
    /\ next_ref' = next_ref + 1
    /\ UNCHANGED << argv, env, binFile, scripts, path, gltf, op, reads,
                    writes, writeFailed, run, completed, bin0, binAtStart >>

\* the buffer written back whatever the total
WriteAlways(n) == TRUE

\* line 103: whether the run writes the buffer back
WriteNeeded(n) == n # 0

\* what a failed fs::write can leave on disk: the old file, an empty file, a part
FailedWrites(old, data) == {old, <<>>, SubSeq(data, 1, Len(data) \div 2)}

\* lines 103-118
Finish ==
    /\ pc = "scan"
    /\ next_ref = Len(NormalRefs(gltf))
    /\ IF ~WriteNeeded(normals_flipped)
       THEN /\ Exit(0)
            /\ completed' = completed + 1
            /\ UNCHANGED << binFile, writes, writeFailed >>
       ELSE /\ writes' = writes + 1
            /\ \/ /\ binFile' = bin_data
                  /\ Exit(0)
                  /\ completed' = completed + 1
                  /\ writeFailed' = writeFailed
               \/ /\ binFile' \in FailedWrites(binFile, bin_data)
                  /\ Exit(1)
                  /\ completed' = completed
                  /\ writeFailed' = TRUE
    /\ UNCHANGED << argv, env, scripts, path, gltf, bin_data, normals_flipped, next_ref,
                    op, reads, run, bin0, binAtStart >>

\* after a run that ended normally, the same command is run again on the same files
Rerun ==
    /\ pc = "done"
    /\ exit_code = 0
    /\ run < MaxRuns
    /\ pc' = "main"
    /\ path' = 0
    /\ gltf' = EmptyDoc
    /\ bin_data' = <<>>
    /\ normals_flipped' = 0
    /\ next_ref' = 0
    /\ exit_code' = -1
    /\ op' = "none"
    /\ reads' = 0
    /\ writes' = 0
    /\ writeFailed' = FALSE
    /\ run' = run + 1
    /\ binAtStart' = binFile
    /\ UNCHANGED << argv, env, binFile, scripts, completed, bin0 >>

Next ==
    \/ Main
    \/ NewScript
    \/ Resolve
    \/ ReadGltf
    \/ ReadBin
    \/ FlipNext
    \/ Finish
    \/ Rerun

Spec == Init /\ [][Next]_vars

\* the same program on the inputs of InitWrap
SpecWrap == InitWrap /\ [][Next]_vars

(***************************************************************************)
(* Vocabulary of the properties, stated from the scene description alone.  *)
(***************************************************************************)
\* the NORMAL reference idx resolves to a VEC3/float32 accessor with a buffer view
Eligible(g, idx) ==
    /\ g.accessors.present
    /\ idx \in 0..(Len(g.accessors.items) - 1)
    /\ LET a == g.accessors.items[idx + 1]
       IN  /\ a.type = "VEC3"
           /\ a.componentType = 5126
           /\ a.count >= 0
           /\ a.bufferView >= 0
           /\ g.bufferViews.present
           /\ a.bufferView < Len(g.bufferViews.items)

RefCount(g, idx) == g.accessors.items[idx + 1].count

RefStride(g, idx) ==
    LET v == g.bufferViews.items[g.accessors.items[idx + 1].bufferView + 1]
    IN  IF v.byteStride < 0 THEN 12 ELSE v.byteStride

\* bufferView.byteOffset + accessor.byteOffset + i * byteStride
ElemOffset(g, idx, i) ==
    LET a == g.accessors.items[idx + 1]
        v == g.bufferViews.items[a.bufferView + 1]
    IN  (IF v.byteOffset < 0 THEN 0 ELSE v.byteOffset)
          + (IF a.byteOffset < 0 THEN 0 ELSE a.byteOffset)
          + i * RefStride(g, idx)

ElemInRange(g, idx, i, len) == ElemOffset(g, idx, i) + 12 <= len

AllInRange(g, idx, len) ==
    \A i \in 0..(RefCount(g, idx) - 1) : ElemInRange(g, idx, i, len)

\* the offsets of the floats the accessor addresses
FloatOffsets(g, idx) ==
    {ElemOffset(g, idx, i) + 4 * j : i \in 0..(RefCount(g, idx) - 1), j \in 0..2}

\* the float32 stored at a byte offset, and its negation
FloatAt(data, off) ==
    [sign |-> data[off + 4] \div 128,
     exp  |-> (data[off + 4] % 128) * 2 + (data[off + 3] \div 128),
     frac |-> (data[off + 3] % 128) * 65536 + data[off + 2] * 256 + data[off + 1]]

Negated(f) == [sign |-> 1 - f.sign, exp |-> f.exp, frac |-> f.frac]

\* the elements of one accessor do not share bytes
NoOverlap(g, idx) == RefStride(g, idx) >= 12 \/ RefCount(g, idx) <= 1

Refs == NormalRefs(gltf)

\* this step is a call of flip_accessor_normals on CurRef
Flipping == pc = "scan" /\ next_ref' = next_ref + 1

CurRef == Refs[next_ref + 1]

\* a flipnormals run went through to its end
RunCompleted == pc = "done" /\ op = "flipnormals" /\ exit_code = 0

(***************************************************************************)
(* C1: after a completed flipnormals run, every normal of every eligible   *)
(* NORMAL accessor whose elements are all in range holds, in the file, the *)
(* negation of what it held before the run, also when primitives share an  *)
(* accessor.  Stated for the scenes in which no accessor has a byteStride  *)
(* under 12, so that the elements of one accessor never share bytes.       *)
(***************************************************************************)
NegatedInFile(g, idx) ==
    \A off \in FloatOffsets(g, idx) :
        FloatAt(binFile, off) = Negated(FloatAt(binAtStart, off))

\* C1: after a completed run every normal of every eligible, in-range NORMAL
\* accessor is the negation of what the file held before the run
C1_EveryNormalNegated ==
    (RunCompleted /\ \A k \in 1..Len(Refs) :
                        Eligible(gltf, Refs[k]) => RefStride(gltf, Refs[k]) >= 12) =>
        \A k \in 1..Len(Refs) :
            (Eligible(gltf, Refs[k]) /\ AllInRange(gltf, Refs[k], Len(binAtStart)))
                => NegatedInFile(gltf, Refs[k])

(***************************************************************************)
(* C2: one call of flip_accessor_normals on an eligible accessor with all  *)
(* elements in range negates exactly the floats at                         *)
(* bufferView.byteOffset + accessor.byteOffset + i*byteStride + j*4, keeps *)
(* every other byte and the length, and returns count.                     *)
(***************************************************************************)
FlipEffect(g, idx, old, new, ret) ==
    /\ Len(new) = Len(old)
    /\ \A off \in FloatOffsets(g, idx) :
           FloatAt(new, off) = Negated(FloatAt(old, off))
    /\ \A p \in 1..Len(old) :
           (\A off \in FloatOffsets(g, idx) : p <= off \/ p > off + 4) => new[p] = old[p]
    /\ ret = RefCount(g, idx)

\* C2 as written, for any stride: the call negates exactly the addressed floats
C2_ExactFloatsNegated ==
    [][(Flipping /\ Eligible(gltf, CurRef) /\ AllInRange(gltf, CurRef, Len(bin_data)))
          => FlipEffect(gltf, CurRef, bin_data, bin_data',
                        normals_flipped' - normals_flipped)]_vars

\* C2 amended: the same, when the elements of the accessor do not share bytes
C2_ExactFloatsNegatedNoOverlap ==
    [][(Flipping /\ Eligible(gltf, CurRef) /\ AllInRange(gltf, CurRef, Len(bin_data))
          /\ NoOverlap(gltf, CurRef))
          => FlipEffect(gltf, CurRef, bin_data, bin_data',
                        normals_flipped' - normals_flipped)]_vars

\* the little-endian bytes of the floats -1.0, 2.0, -3.0
ExampleFlipped == << 0, 0, 128, 191,   0, 0, 0, 64,   0, 0, 64, 192 >>

\* the example of the specification has been flipped, and reports 1
C2_Witness ==
    /\ pc = "scan"
    /\ gltf = ExampleDoc
    /\ binAtStart = ExampleBytes
    /\ next_ref = 1
    /\ bin_data = ExampleFlipped
    /\ normals_flipped = 1

(***************************************************************************)
(* C3: two completed runs in succession on the same files leave the binary *)
(* file equal to its content before the first run.                         *)
(***************************************************************************)
\* C3: after an even number of completed runs the file equals its first content
C3_TwiceRestores ==
    (RunCompleted /\ completed = run /\ run % 2 = 0) => binFile = bin0

\* the first run changed the file, with some component skipped, the second restored it
C3_Witness ==
    /\ RunCompleted
    /\ completed = 2
    /\ run = 2
    /\ binAtStart # bin0
    /\ binFile = bin0
    /\ \E k \in 1..Len(Refs) :
          Eligible(gltf, Refs[k]) /\ ~AllInRange(gltf, Refs[k], Len(bin0))

(***************************************************************************)
(* C4: an element whose byte range exceeds the buffer is skipped whole     *)
(* (none of X, Y, Z is modified); the elements in range are negated.       *)
(***************************************************************************)
RECURSIVE SkipWholeElements(_, _, _, _)
SkipWholeElements(g, idx, i, data) ==
    IF i >= RefCount(g, idx) THEN data
    ELSE SkipWholeElements(g, idx, i + 1,
            IF ElemInRange(g, idx, i, Len(data))
            THEN FlipElement(Running(data), ElemOffset(g, idx, i), FALSE).data
            ELSE data)

\* C4: the call leaves an out-of-range element whole and negates the others
C4_ElementSkippedWhole ==
    [][(Flipping /\ Eligible(gltf, CurRef))
          => bin_data' = SkipWholeElements(gltf, CurRef, 0, bin_data)]_vars

(***************************************************************************)
(* C5: the binary file is read once, before any mutation, and written at   *)
(* most once, after every primitive has been processed, exactly when the   *)
(* flipped total is nonzero; no NORMAL anywhere means no write and a total *)
(* of zero.                                                                *)
(***************************************************************************)
Lifecycle ==
    /\ reads <= 1
    /\ writes <= 1
    /\ (pc = "scan" \/ next_ref > 0 \/ bin_data # <<>>) => reads = 1
    /\ writes = 1 => (pc = "done" /\ next_ref = Len(Refs) /\ normals_flipped # 0)
    /\ RunCompleted => (reads = 1 /\ (writes = 1 <=> normals_flipped # 0))
    /\ (RunCompleted /\ Refs = <<>>) => (writes = 0 /\ normals_flipped = 0)
    /\ writes = 0 => binFile = binAtStart

FatalEnd == pc = "done" /\ op = "flipnormals" /\ exit_code = 1

\* C5 as written: the lifecycle, and no run that ends in a fatal error has written
C5_LifecycleNoWriteOnFatal ==
    Lifecycle /\ (FatalEnd => (writes = 0 /\ binFile = binAtStart))

\* C5 amended: a fatal run has not written, unless the fatal error is the failure
\* of the final write itself
C5_LifecycleWriteOnlyAtEnd ==
    Lifecycle /\ ((FatalEnd /\ ~writeFailed) => (writes = 0 /\ binFile = binAtStart))

\* a run with two NORMAL references has written the mutated buffer once
C5_Witness ==
    /\ RunCompleted
    /\ Len(Refs) = 2
    /\ reads = 1
    /\ writes = 1
    /\ binFile = bin_data
    /\ binFile # binAtStart

(***************************************************************************)
(* C6: a NORMAL accessor that is not VEC3, or not float32, or lacks either *)
(* field, is skipped: the call changes no byte and adds nothing to the     *)
(* total, the run goes on, and the references after it are processed.      *)
(***************************************************************************)
WrongType(g, idx) ==
    /\ g.accessors.present
    /\ idx \in 0..(Len(g.accessors.items) - 1)
    /\ LET a == g.accessors.items[idx + 1]
       IN  a.type # "VEC3" \/ a.componentType # 5126

\* C6: the call on a wrongly typed accessor changes nothing, and a completed run
\* has processed every reference
C6_WrongTypeSkipped ==
    /\ [][(Flipping /\ WrongType(gltf, CurRef))
             => /\ bin_data' = bin_data
                /\ normals_flipped' = normals_flipped
                /\ pc' = "scan"
                /\ exit_code' = exit_code]_vars
    /\ [](RunCompleted => next_ref = Len(Refs))

\* a skipped accessor was followed by one that was flipped
C6_Witness ==
    /\ pc = "scan"
    /\ next_ref = 2
    /\ WrongType(gltf, Refs[1])
    /\ Eligible(gltf, Refs[2])
    /\ AllInRange(gltf, Refs[2], Len(bin_data))
    /\ normals_flipped = RefCount(gltf, Refs[2])
    /\ bin_data # binAtStart

(***************************************************************************)
(* C7: a scene description without `buffers`, without the uri of           *)
(* buffers[0], without `accessors` or without `bufferViews` is fatal: the  *)
(* process exits non-zero and nothing is written.                          *)
(***************************************************************************)
Parsed == op = "flipnormals" /\ gltf = env.doc

NoBinPath(g) ==
    \/ ~g.buffers.present
    \/ g.buffers.items = <<>>
    \/ g.buffers.items[1].uri = NoStr

NoArrays(g) == ~g.accessors.present \/ ~g.bufferViews.present

Untouched == writes = 0 /\ binFile = binAtStart

\* C7 as written: any of the four missing fields ends the run with exit 1, unwritten
C7_MissingFieldsFatal ==
    (pc = "done" /\ Parsed /\ (NoBinPath(gltf) \/ NoArrays(gltf)))
        => (exit_code = 1 /\ Untouched)

\* C7 amended: without `buffers` or the uri the run is fatal and the binary file is
\* neither read nor written; without `accessors` or `bufferViews` every reference
\* adds zero and the run ends normally, with a total of zero and no write
C7_OnlyBinPathFatal ==
    /\ (pc = "done" /\ Parsed /\ NoBinPath(gltf))
          => (exit_code = 1 /\ reads = 0 /\ Untouched)
    /\ (pc = "done" /\ Parsed /\ ~NoBinPath(gltf) /\ NoArrays(gltf) /\ env.binExists)
          => (exit_code = 0 /\ next_ref = Len(Refs) /\ normals_flipped = 0 /\ Untouched)

\* a scene without `accessors` whose NORMAL references were all processed
C7_Witness ==
    /\ pc = "done"
    /\ Parsed
    /\ ~gltf.accessors.present
    /\ Len(Refs) = 2
    /\ next_ref = 2
    /\ exit_code = 0

(***************************************************************************)
(* C8: a NORMAL reference whose accessor index, or whose accessor's        *)
(* bufferView index, is out of range changes nothing and adds nothing; the *)
(* run goes on, and ends as the run without these references would.        *)
(***************************************************************************)
BadAccessorIndex(g, idx) ==
    g.accessors.present /\ idx >= Len(g.accessors.items)

BadViewIndex(g, idx) ==
    /\ g.accessors.present
    /\ idx < Len(g.accessors.items)
    /\ g.bufferViews.present
    /\ g.accessors.items[idx + 1].bufferView >= Len(g.bufferViews.items)

BadIndex(g, idx) == BadAccessorIndex(g, idx) \/ BadViewIndex(g, idx)

GoodIndexHere(idx) == ~BadIndex(gltf, idx)

\* lines 84-101 over a sequence of references
RECURSIVE RunOver(_, _, _, _)
RunOver(g, refs, data, total) ==
    IF refs = <<>> THEN [data |-> data, ret |-> total]
    ELSE LET r == FlipAccessorNormals(g, Head(refs), data, env.overflowChecks)
         IN  RunOver(g, Tail(refs), r.data, total + r.ret)

\* C8: the call on a reference with a bad index changes nothing, and a completed
\* run ends as the run over the other references does
C8_BadIndexSkipped ==
    /\ [][(Flipping /\ BadIndex(gltf, CurRef))
             => /\ bin_data' = bin_data
                /\ normals_flipped' = normals_flipped
                /\ pc' = "scan"
                /\ exit_code' = exit_code]_vars
    /\ [](RunCompleted =>
             [data |-> bin_data, ret |-> normals_flipped]
                 = RunOver(gltf, SelectSeq(Refs, GoodIndexHere), binAtStart, 0))

\* a reference past the end of `accessors`, then a reference that was flipped
C8_Witness ==
    /\ RunCompleted
    /\ Len(Refs) = 2
    /\ BadAccessorIndex(gltf, Refs[1])
    /\ Eligible(gltf, Refs[2])
    /\ bin_data # binAtStart
    /\ normals_flipped = RefCount(gltf, Refs[2])

(***************************************************************************)
(* C9: a path that does not exist, or a directory with no .gltf file, ends *)
(* the run with NotFound before any file is read or written; a directory   *)
(* with exactly one .gltf file resolves to that file, and the run goes on  *)
(* as if that file had been given.                                         *)
(***************************************************************************)
GltfFiles(e) ==
    {i \in 1..Len(e.entries) : e.entries[i].ext = "gltf" /\ ~e.entries[i].isDir}

Resolved == op = "flipnormals" /\ pc # "resolve"

\* the run ended in `run` before its first read
EndedNotFound ==
    /\ pc = "done"
    /\ exit_code = 1
    /\ path = 0
    /\ gltf = EmptyDoc
    /\ reads = 0
    /\ Untouched

\* C9: no path or no .gltf file ends the run before any read; exactly one .gltf
\* file is the path the run reads
C9_PathResolution ==
    /\ (Resolved /\ env.inputKind = "missing") => EndedNotFound
    /\ (Resolved /\ env.inputKind = "dir" /\ GltfFiles(env) = {}) => EndedNotFound
    /\ (Resolved /\ env.inputKind = "dir" /\ Cardinality(GltfFiles(env)) = 1)
          => /\ path \in GltfFiles(env)
             /\ ReadOutcome(env, path) = ReadOutcome([env EXCEPT !.inputKind = "file"], 0)

(***************************************************************************)
(* C10: main accepts `newscript <Name>`, `flipnormals <path>`,             *)
(* `build [name]` and `help`, and dispatches each to its operation; with   *)
(* no command, an unknown command or a missing required argument the       *)
(* process exits non-zero and no operation runs.                           *)
(***************************************************************************)
Accepted(a) ==
    /\ a.len >= 2
    /\ \/ a.cmd \in {"newscript", "flipnormals"} /\ a.len >= 3
       \/ a.cmd \in {"build", "help"}

\* C10: once main has run, an accepted command line has been dispatched to its
\* operation, and any other has ended the process with exit 1 and no operation
C10_FourCommands ==
    pc # "main" =>
        IF Accepted(argv)
        THEN op = argv.cmd
        ELSE op = "none" /\ pc = "done" /\ exit_code = 1

(***************************************************************************)
(* C11: the total reported by a completed run is the number of vertex      *)
(* normals that were negated in the buffer: an element skipped by the      *)
(* bounds check is not counted, and the run takes the `no normals, no      *)
(* write` branch exactly when no normal was negated.                       *)
(***************************************************************************)
\* the elements of a reference with all three components negated
WholeElems(g, idx, len) ==
    IF Eligible(g, idx)
    THEN {i \in 0..(RefCount(g, idx) - 1) : ElemOffset(g, idx, i) + 12 <= len}
    ELSE {}

\* the elements of a reference with a component negated
TouchedElems(g, idx, len) ==
    IF Eligible(g, idx)
    THEN {i \in 0..(RefCount(g, idx) - 1) : ElemOffset(g, idx, i) + 4 <= len}
    ELSE {}

RECURSIVE WholeCount(_, _, _)
WholeCount(g, refs, len) ==
    IF refs = <<>> THEN 0
    ELSE Cardinality(WholeElems(g, Head(refs), len)) + WholeCount(g, Tail(refs), len)

RECURSIVE TouchedCount(_, _, _)
TouchedCount(g, refs, len) ==
    IF refs = <<>> THEN 0
    ELSE Cardinality(TouchedElems(g, Head(refs), len)) + TouchedCount(g, Tail(refs), len)

\* C11: the total of a completed run lies between the number of normals negated
\* whole and the number of normals with a component negated, and the file is left
\* unwritten exactly when no normal was negated
C11_TotalCountsNegatedNormals ==
    RunCompleted =>
        /\ WholeCount(gltf, Refs, Len(bin_data)) <= normals_flipped
        /\ normals_flipped <= TouchedCount(gltf, Refs, Len(bin_data))
        /\ TouchedCount(gltf, Refs, Len(bin_data)) = 0 => writes = 0
        /\ writes = 0 => WholeCount(gltf, Refs, Len(bin_data)) = 0

(***************************************************************************)
(* C12: the offset arithmetic of flip_accessor_normals never wraps around, *)
(* whatever usize values byteOffset, byteStride and count hold: a call     *)
(* modifies no byte outside the floats at the exact offsets                *)
(* bufferView.byteOffset + accessor.byteOffset + i*byteStride + j*4 that   *)
(* lie inside the buffer, and the run does not abort.                      *)
(***************************************************************************)
\* the 0-based positions of the bytes of the floats that lie inside the buffer
ExactBytes(g, idx, len) ==
    {off + k : off \in {o \in FloatOffsets(g, idx) : o + 4 <= len}, k \in 0..3}

\* the 0-based positions at which two buffers of the same length differ
Modified(old, new) == {k \in 0..(Len(old) - 1) : old[k + 1] # new[k + 1]}

\* C12: a call on an eligible accessor leaves the run going and modifies only
\* bytes of the in-range floats at the exact offsets
C12_NoWrapAround ==
    [][(Flipping /\ Eligible(gltf, CurRef))
          => /\ pc' = "scan"
             /\ Len(bin_data') = Len(bin_data)
             /\ Modified(bin_data, bin_data')
                    \subseteq ExactBytes(gltf, CurRef, Len(bin_data))]_vars

====
